---- MODULE Spec2Model ----
(***************************************************************************)
(* Model of the ABRP plugin of CarConnectivity                             *)
(* (src/src/carconnectivity_plugins/abrp/plugin.py).                       *)
(*                                                                         *)
(* Two threads are modelled: the controller, which calls startup() and     *)
(* shutdown(), and the background worker running _background_loop().       *)
(* Every blocking call of the worker (session.post, _stop_event.wait) is   *)
(* a point where the controller may run.                                   *)
(*                                                                         *)
(* Python values: None is the empty tuple <<>>, a JSON number n is <<n>>   *)
(* (so that "x is not None" is x # None), a JSON object is a record and    *)
(* "'k' in d" is "k" \in DOMAIN d.                                         *)
(***************************************************************************)
EXTENDS Integers, Sequences, FiniteSets, TLC

VARIABLES
    connection_state,     \* self.connection_state.value
    healthy,              \* self.healthy.value
    subsequent_errors,    \* self.subsequent_errors
    stop_event,           \* self._stop_event (TRUE = set)
    last_telemetry_data,  \* self.last_telemetry_data: vin -> telemetry record
    abrp_objects,         \* self.abrp_objects: token -> next_charge_level value
    ctl_pc,               \* position of the controller thread
    w_pc,                 \* position of the worker thread ("none": no thread)
    w_idx,                \* position of the for loop in active_config['tokens']
    http,                 \* the request the worker is blocked in, or None
    seen,                 \* this tick: what the registry answered, per vin
                          \* handled so far
    tick_log,             \* this tick: the session.post calls made, in order
    config,               \* the config dictionary given to __init__
    interval,             \* self.interval.value in seconds, as <<s>>
    the_vehicle,          \* vehicle: the vehicle view a snapshot is built from
    the_telemetry_data,    \* telemetry_data: the snapshot built from it
    LOG,                  \* severity of the failure the last push logged
                          \* ("none": no push yet, or it logged no failure)
    failed_since_success  \* a push has failed since the last successful push

\* config and self.interval
construction == <<config, interval>>

\* vehicle and telemetry_data of _update_and_publish_telemetry, taken alone
snapshot == <<the_vehicle, the_telemetry_data>>

\* what _publish_telemetry wrote to the log, and the history it is judged by
journal == <<LOG, failed_since_success>>

vars == <<connection_state, healthy, subsequent_errors, stop_event,
          last_telemetry_data, abrp_objects, ctl_pc, w_pc, w_idx, http,
          seen, tick_log, construction, snapshot, journal>>

None == <<>>

----------------------------------------------------------------------------
(* Bounds of the model *)

\* longest run of transient answers (503 / connection error) a server gives
MaxTransient == 4

----------------------------------------------------------------------------
(* Configuration and inputs *)

\* active_config['tokens'].items(), in the order of the mapping
tokens == << [vin |-> "VIN1", token |-> "tokA"],
             [vin |-> "VIN2", token |-> "tokB"] >>

VINs == {tokens[i].vin : i \in 1..Len(tokens)}

\* values of the drive level a vehicle view can carry
SocValues == {72}

\* next_charge values the API can return
Levels == {80}

\* managing_connectors of a vehicle, each given by what is_healthy() returns
ConnectorLists == {<<>>, <<TRUE>>, <<TRUE, FALSE>>}

\* An attribute of the vehicle: whether it is enabled, and its value (None
\* or <<v>>).  Values are held in the unit the record is sent in (km, m,
\* kW, degrees Celsius).
Attr(enabled, value) == [enabled |-> enabled, value |-> value]
Off == Attr(FALSE, None)
On(v) == Attr(TRUE, <<v>>)
Attrs(values) ==
    {Attr(e, v) : e \in BOOLEAN, v \in {None} \cup {<<x>> : x \in values}}

\* the level of a drive also carries last_updated, a time with its UTC offset
Level(enabled, value, last_updated) ==
    [enabled |-> enabled, value |-> value, last_updated |-> last_updated]

Drive(enabled, type, level, range) ==
    [enabled |-> enabled, type |-> type, level |-> level, range |-> range]

\* a vehicle with nothing enabled and no drive, charging or position object
BaseVehicle ==
    [vin |-> "VIN1", managing_connectors |-> <<>>,
     drives |-> [enabled |-> FALSE, drives |-> <<>>],
     odometer |-> Off,
     electric |-> FALSE,
     charging |-> None,
     position |-> None,
     outside_temperature |-> Off,
     climatization |->
         [enabled |-> FALSE,
          settings |-> [enabled |-> FALSE, target_temperature |-> None]]]

\* a vehicle of the registry as the worker meets it: an electric vehicle
\* with one drive, whose level is set or not
SampleVehicle(vin, connectors, level) ==
    [BaseVehicle EXCEPT
        !.vin = vin, !.managing_connectors = connectors, !.electric = TRUE,
        !.drives = [enabled |-> TRUE,
                    drives |-> <<Drive(TRUE, "electric",
                                       Level(level # None, level, None),
                                       Off)>>]]

\* what garage.get_vehicle(vin) can return: None or a vehicle view
VehicleViews ==
    {SampleVehicle(vin, c, l) :
        vin \in VINs, c \in ConnectorLists,
        l \in {None} \cup {<<s>> : s \in SocValues}}

get_vehicle(vin) == {None} \cup {v \in VehicleViews : v.vin = vin}

----------------------------------------------------------------------------
(* The remote server and the transport (Session with the mounted Retry) *)

\* Retry(total=3, ...)
RetryTotal == 3

\* Retry(status_forcelist=[500, 502, 503, 504])
status_forcelist == {500, 502, 503, 504}

\* Retry(...) is built without allowed_methods, so the library default
\* applies: the idempotent methods only
allowed_methods == {"HEAD", "GET", "PUT", "DELETE", "OPTIONS", "TRACE"}

\* every request of the plugin is made with session.post
Method == "POST"

ConnectionError == [kind |-> "error"]
Status(code) == [kind |-> "response", status_code |-> code, json |-> None]
Ok200(body) == [kind |-> "response", status_code |-> 200, json |-> body]

\* bodies of tlm/send
SendBodies == { [status |-> "ok"], [status |-> "fail"], [error |-> "x"], None }

\* bodies of tlm/get_next_charge
NextChargeBodies ==
    { [status |-> "ok", next_charge |-> <<l>>] : l \in Levels } \cup
    { [status |-> "ok", next_charge |-> None], [status |-> "ok"],
      [status |-> "fail"], [error |-> "x"], None }

RECURSIVE Repeat(_, _)
Repeat(x, n) == IF n = 0 THEN <<>> ELSE <<x>> \o Repeat(x, n - 1)

\* A server script is the list of answers the server gives to the successive
\* attempts of one session.post call.
Scripts(bodies) ==
    { <<Ok200(b)>> : b \in bodies } \cup { <<Status(404)>> } \cup
    { Repeat(t, n) \o <<Ok200([status |-> "ok"])>> :
          t \in {Status(503), ConnectionError}, n \in 1..MaxTransient }

\* Retry.is_retry: a status is retried only for a retryable method
is_retry(method, status_code) ==
    method \in allowed_methods /\ status_code \in status_forcelist

\* session.post through HTTPAdapter(max_retries=retries): the response
\* handed to the caller, or an exception (a RequestException) when the
\* retries are exhausted.  Connection errors are retried for every method.
RECURSIVE urlopen(_, _, _)
urlopen(method, script, total) ==
    LET r == Head(script)
        again == r.kind = "error" \/ is_retry(method, r.status_code)
    IN  IF ~again THEN r
        ELSE IF total = 0
             THEN [kind |-> "exception", exc |-> "RequestException"]
             ELSE urlopen(method, Tail(script), total - 1)

session_post(script) == urlopen(Method, script, RetryTotal)

----------------------------------------------------------------------------
(* Initial state: the plugin as constructed by __init__.  The healthy     *)
(* attribute belongs to BasePlugin and is false until startup() sets it.   *)

EmptyDict == [k \in {} |-> None]

\* self.active_config['interval'] = 60
DefaultInterval == 60

\* if self.active_config['interval'] < 10: raise ConfigurationError
MinInterval == 10

\* dict with d[key] = value
\* the value of config['tokens']: a mapping (its items in order) or, when
\* the configuration is malformed, a string
Mapping(items) == [kind |-> "dict", items |-> items]
Str(text) == [kind |-> "str", text |-> text]

\* "not config['tokens']" is false for these
truthy(value) ==
    IF value.kind = "dict" THEN value.items # <<>> ELSE value.text # ""

DictSet(d, key, value) ==
    [k \in DOMAIN d \cup {key} |-> IF k = key THEN value ELSE d[k]]

Init ==
    /\ connection_state = "DISCONNECTED"
    /\ healthy = FALSE
    /\ subsequent_errors = 0
    /\ stop_event = FALSE
    /\ last_telemetry_data = EmptyDict
    /\ abrp_objects = EmptyDict
    /\ ctl_pc = "constructed"
    /\ w_pc = "none"
    /\ w_idx = 1
    /\ http = None
    /\ seen = EmptyDict
    /\ tick_log = <<>>
    /\ config = [tokens |-> Mapping(tokens)]
    /\ interval = <<DefaultInterval>>
    /\ the_vehicle = None
    /\ the_telemetry_data = None
    /\ LOG = "none"
    /\ failed_since_success = FALSE

----------------------------------------------------------------------------
(* The controller thread *)

\* startup(), up to and including self._background_thread.start()
startup_thread ==
    /\ ctl_pc = "constructed"
    /\ w_pc' = "start"
    /\ ctl_pc' = "startup"
    /\ UNCHANGED <<construction, snapshot, journal>>
    /\ UNCHANGED <<connection_state, healthy, subsequent_errors, stop_event,
                   last_telemetry_data, abrp_objects, w_idx, http, seen,
                   tick_log>>

\* startup(): self.healthy._set_value(value=True), after the thread started
startup_healthy ==
    /\ ctl_pc = "startup"
    /\ healthy' = TRUE
    /\ ctl_pc' = "started"
    /\ UNCHANGED <<construction, snapshot, journal>>
    /\ UNCHANGED <<connection_state, subsequent_errors, stop_event,
                   last_telemetry_data, abrp_objects, w_pc, w_idx, http,
                   seen, tick_log>>

\* shutdown(): self._stop_event.set()
shutdown_set ==
    /\ ctl_pc = "started"
    /\ stop_event' = TRUE
    /\ ctl_pc' = "join"
    /\ UNCHANGED <<construction, snapshot, journal>>
    /\ UNCHANGED <<connection_state, healthy, subsequent_errors,
                   last_telemetry_data, abrp_objects, w_pc, w_idx, http,
                   seen, tick_log>>

\* the thread object is no longer alive
Terminated == w_pc \in {"exited", "crashed"}

\* shutdown(): join() returns once the worker has terminated, then the
\* connection state is set to DISCONNECTED
shutdown_join ==
    /\ ctl_pc = "join"
    /\ Terminated
    /\ connection_state' = "DISCONNECTED"
    /\ ctl_pc' = "stopped"
    /\ UNCHANGED <<construction, snapshot, journal>>
    /\ UNCHANGED <<healthy, subsequent_errors, stop_event,
                   last_telemetry_data, abrp_objects, w_pc, w_idx, http,
                   seen, tick_log>>

Controller ==
    \/ startup_thread
    \/ startup_healthy
    \/ shutdown_set
    \/ shutdown_join

----------------------------------------------------------------------------
(* The worker thread: _background_loop *)

\* first statement of _background_loop: self._stop_event.clear()
loop_clear ==
    /\ w_pc = "start"
    /\ stop_event' = FALSE
    /\ w_pc' = "while"
    /\ UNCHANGED <<construction, snapshot, journal>>
    /\ UNCHANGED <<connection_state, healthy, subsequent_errors,
                   last_telemetry_data, abrp_objects, ctl_pc, w_idx, http,
                   seen, tick_log>>

\* while not self._stop_event.is_set(): the event is set, the thread ends
loop_exit ==
    /\ w_pc = "while"
    /\ stop_event
    /\ w_pc' = "exited"
    /\ UNCHANGED <<construction, snapshot, journal>>
    /\ UNCHANGED <<connection_state, healthy, subsequent_errors, stop_event,
                   last_telemetry_data, abrp_objects, ctl_pc, w_idx, http,
                   seen, tick_log>>

\* while not self._stop_event.is_set(): a new tick starts
loop_tick ==
    /\ w_pc = "while"
    /\ ~stop_event
    /\ w_pc' = "for"
    /\ w_idx' = 1
    /\ seen' = EmptyDict
    /\ tick_log' = <<>>
    /\ UNCHANGED <<construction, snapshot, journal>>
    /\ UNCHANGED <<connection_state, healthy, subsequent_errors, stop_event,
                   last_telemetry_data, abrp_objects, ctl_pc, http>>

\* for connector in vehicle.managing_connectors: if not connector.is_healthy()
all_healthy(vehicle) ==
    \A i \in 1..Len(vehicle.managing_connectors) : vehicle.managing_connectors[i]

\* skipped with the connector check left out
skipped_ignoring_connectors(vehicle) == vehicle = None

\* the early returns of _update_and_publish_telemetry
skipped(vehicle) ==
    IF vehicle = None THEN TRUE
    ELSE IF ~all_healthy(vehicle) THEN TRUE
    ELSE FALSE

\* what the registry answered for a vin: whether a vehicle was returned, and
\* what its connectors reported
Answer(vehicle) ==
    IF vehicle = None
    THEN [present |-> FALSE, managing_connectors |-> <<>>]
    ELSE [present |-> TRUE, managing_connectors |-> vehicle.managing_connectors]

\* "x.enabled and x.value is not None"
Has(attribute) == attribute.enabled /\ attribute.value # None

\* last_updated.astimezone(timezone.utc).timestamp()
timestamp(t) == t.local - t.utcoffset

Min(S) == CHOOSE x \in S : \A y \in S : x <= y

\* electric_drive taking the first enabled drive of several, whatever its type
electric_drive_any_type(vehicle) ==
    LET ds == vehicle.drives.drives
    IN  IF Len(ds) = 1 /\ ds[1].enabled THEN <<ds[1]>>
        ELSE IF Len(ds) > 1
             THEN LET idx == {i \in 1..Len(ds) : ds[i].enabled}
                  IN  IF idx = {} THEN None ELSE <<ds[Min(idx)]>>
             ELSE None

\* the drive the snapshot reads: the only drive if it is enabled, the first
\* enabled electric drive of several; None or <<drive>>
electric_drive(vehicle) ==
    LET ds == vehicle.drives.drives
    IN  IF Len(ds) = 1 /\ ds[1].enabled THEN <<ds[1]>>
        ELSE IF Len(ds) > 1
             THEN LET idx == {i \in 1..Len(ds) :
                                 ds[i].enabled /\ ds[i].type = "electric"}
                  IN  IF idx = {} THEN None ELSE <<ds[Min(idx)]>>
             ELSE None

\* soc, utc and est_battery_range
drive_fields(vehicle) ==
    IF ~vehicle.drives.enabled THEN EmptyDict
    ELSE LET ed == electric_drive(vehicle)
         IN  IF ed = None THEN EmptyDict
             ELSE LET d == ed[1]
                  IN  (IF Has(d.level)
                       THEN [soc |-> d.level.value[1]] @@
                            (IF d.level.last_updated # None
                             THEN [utc |-> timestamp(d.level.last_updated[1])]
                             ELSE EmptyDict)
                       ELSE EmptyDict) @@
                      (IF Has(d.range)
                       THEN [est_battery_range |-> d.range.value[1]]
                       ELSE EmptyDict)

odometer_field(vehicle) ==
    IF Has(vehicle.odometer) THEN [odometer |-> vehicle.odometer.value[1]]
    ELSE EmptyDict

\* is_charging_field with DISCHARGING taken for not charging
is_charging_field_discharging_false(charging) ==
    IF Has(charging.state)
    THEN IF charging.state.value[1] \in {"CHARGING", "CONSERVATION"}
         THEN [is_charging |-> TRUE]
         ELSE IF charging.state.value[1] \in
                     {"OFF", "READY_FOR_CHARGING", "ERROR", "DISCHARGING"}
              THEN [is_charging |-> FALSE]
              ELSE EmptyDict
    ELSE EmptyDict

is_charging_field(charging) ==
    IF Has(charging.state)
    THEN IF charging.state.value[1] \in
                {"CHARGING", "CONSERVATION", "DISCHARGING"}
         THEN [is_charging |-> TRUE]
         ELSE IF charging.state.value[1] \in
                     {"OFF", "READY_FOR_CHARGING", "ERROR"}
              THEN [is_charging |-> FALSE]
              ELSE EmptyDict
    ELSE EmptyDict

is_dcfc_field(charging) ==
    IF Has(charging.type)
    THEN IF charging.type.value[1] = "DC" THEN [is_dcfc |-> TRUE]
         ELSE IF charging.type.value[1] = "AC" THEN [is_dcfc |-> FALSE]
         ELSE EmptyDict
    ELSE EmptyDict

\* power_field without the second change of sign
power_field_always_negated(charging) ==
    IF Has(charging.power)
    THEN [power |-> charging.power.value[1] * (-1)]
    ELSE EmptyDict

power_field(charging) ==
    IF Has(charging.power)
    THEN LET power == charging.power.value[1] * (-1)
         IN  [power |->
                 IF Has(charging.state)
                    /\ charging.state.value[1] = "DISCHARGING"
                 THEN power * (-1) ELSE power]
    ELSE EmptyDict

\* is_charging, is_dcfc and power
charging_fields(vehicle) ==
    IF ~vehicle.electric THEN EmptyDict
    ELSE IF vehicle.charging = None THEN EmptyDict
    ELSE IF ~vehicle.charging.enabled THEN EmptyDict
    ELSE is_charging_field(vehicle.charging) @@
         is_dcfc_field(vehicle.charging) @@
         power_field(vehicle.charging)

\* lat_lon_fields sending each coordinate on its own
lat_lon_fields_separately(position) ==
    (IF Has(position.latitude)
     THEN [lat |-> position.latitude.value[1]] ELSE EmptyDict) @@
    (IF Has(position.longitude)
     THEN [lon |-> position.longitude.value[1]] ELSE EmptyDict)

lat_lon_fields(position) ==
    IF Has(position.latitude) /\ Has(position.longitude)
    THEN [lat |-> position.latitude.value[1],
          lon |-> position.longitude.value[1]]
    ELSE EmptyDict

\* is_parked, lat, lon, elevation and heading
position_fields(vehicle) ==
    IF vehicle.position = None THEN EmptyDict
    ELSE IF ~vehicle.position.enabled THEN EmptyDict
    ELSE LET position == vehicle.position
         IN  (IF Has(position.position_type)
              THEN IF position.position_type.value[1] = "PARKING"
                   THEN [is_parked |-> TRUE]
                   ELSE IF position.position_type.value[1] = "DRIVING"
                        THEN [is_parked |-> FALSE]
                        ELSE EmptyDict
              ELSE EmptyDict) @@
             lat_lon_fields(position) @@
             (IF Has(position.altitude)
              THEN [elevation |-> position.altitude.value[1]]
              ELSE EmptyDict) @@
             (IF Has(position.heading)
              THEN [heading |-> position.heading.value[1]]
              ELSE EmptyDict)

\* ext_temp and hvac_setpoint
temperature_fields(vehicle) ==
    (IF Has(vehicle.outside_temperature)
     THEN [ext_temp |-> vehicle.outside_temperature.value[1]]
     ELSE EmptyDict) @@
    (LET c == vehicle.climatization
     IN  IF c.enabled /\ c.settings.enabled
            /\ c.settings.target_temperature # None
         THEN IF Has(c.settings.target_temperature)
              THEN [hvac_setpoint |-> c.settings.target_temperature.value[1]]
              ELSE EmptyDict
         ELSE EmptyDict)

\* the telemetry record built from a vehicle view
build_telemetry(vehicle) ==
    drive_fields(vehicle) @@ odometer_field(vehicle) @@
    charging_fields(vehicle) @@ position_fields(vehicle) @@
    temperature_fields(vehicle)

\* body of the for loop up to the blocking session.post of _publish_telemetry:
\* CONNECTING unless CONNECTED, the lookup, the early returns, the snapshot
for_vehicle ==
    /\ w_pc = "for"
    /\ w_idx <= Len(tokens)
    /\ connection_state' =
           IF connection_state # "CONNECTED" THEN "CONNECTING"
           ELSE connection_state
    /\ \E vehicle \in get_vehicle(tokens[w_idx].vin) :
         LET vin == tokens[w_idx].vin
             token == tokens[w_idx].token
         IN  /\ seen' = DictSet(seen, vin, Answer(vehicle))
             /\ IF skipped(vehicle)
                THEN /\ w_idx' = w_idx + 1
                     /\ UNCHANGED <<w_pc, http, tick_log>>
                ELSE /\ \E script \in Scripts(SendBodies) :
                          http' = [url |-> "tlm/send", token |-> token,
                                   tlm |-> build_telemetry(vehicle),
                                   server |-> script]
                     /\ tick_log' = Append(tick_log, <<"tlm/send", token>>)
                     /\ w_pc' = "push"
                     /\ UNCHANGED w_idx
    /\ UNCHANGED <<construction, snapshot, journal>>
    /\ UNCHANGED <<healthy, subsequent_errors, stop_event,
                   last_telemetry_data, abrp_objects, ctl_pc>>

\* publish_telemetry writing the cache after every answer with status code
\* 200 that carries a status, not only after 'ok'
publish_telemetry_caching_rejected(vin, telemetry_data, result) ==
    LET keep == [connection_state |-> connection_state,
                 subsequent_errors |-> subsequent_errors,
                 last_telemetry_data |-> last_telemetry_data]
        error == [keep EXCEPT !.connection_state = "ERROR"]
        cached == DictSet(last_telemetry_data, vin, telemetry_data)
    IN  IF result.kind = "exception" THEN error
        ELSE IF result.status_code # 200 THEN keep
        ELSE IF result.json = None THEN error
        ELSE IF "status" \notin DOMAIN result.json THEN error
        ELSE IF result.json.status # "ok"
             THEN [error EXCEPT !.last_telemetry_data = cached]
        ELSE [connection_state |-> "CONNECTED",
              subsequent_errors |-> 0,
              last_telemetry_data |-> cached]

\* publish_telemetry resetting the state to DISCONNECTED on a transport error
publish_telemetry_disconnecting(vin, telemetry_data, result) ==
    LET keep == [connection_state |-> connection_state,
                 subsequent_errors |-> subsequent_errors,
                 last_telemetry_data |-> last_telemetry_data]
        error == [keep EXCEPT !.connection_state = "ERROR"]
    IN  IF result.kind = "exception"
        THEN [keep EXCEPT !.connection_state = "DISCONNECTED"]
        ELSE IF result.status_code # 200 THEN keep
        ELSE IF result.json = None THEN error
        ELSE IF "status" \notin DOMAIN result.json THEN error
        ELSE IF result.json.status # "ok" THEN error
        ELSE [connection_state |-> "CONNECTED",
              subsequent_errors |-> 0,
              last_telemetry_data |->
                  DictSet(last_telemetry_data, vin, telemetry_data)]

\* _publish_telemetry after session.post: the new values of the connection
\* state, the error counter and the cache for the result of the call
publish_telemetry(vin, telemetry_data, result) ==
    LET keep == [connection_state |-> connection_state,
                 subsequent_errors |-> subsequent_errors,
                 last_telemetry_data |-> last_telemetry_data]
        error == [keep EXCEPT !.connection_state = "ERROR"]
    IN  IF result.kind = "exception" THEN error
        ELSE IF result.status_code # 200 THEN keep
        ELSE IF result.json = None THEN error
        ELSE IF "status" \notin DOMAIN result.json THEN error
        ELSE IF result.json.status # "ok" THEN error
        ELSE [connection_state |-> "CONNECTED",
              subsequent_errors |-> 0,
              last_telemetry_data |->
                  DictSet(last_telemetry_data, vin, telemetry_data)]

\* the push was accepted: status code 200 and a body with 'status': 'ok'
succeeded(result) ==
    IF result.kind = "exception" THEN FALSE
    ELSE IF result.status_code # 200 THEN FALSE
    ELSE IF result.json = None THEN FALSE
    ELSE IF "status" \notin DOMAIN result.json THEN FALSE
    ELSE result.json.status = "ok"

\* the severity of the record _publish_telemetry logs for the result of the
\* call, "none" when it logs no failure
log_level(result) ==
    LET by_counter == IF subsequent_errors > 0 THEN "error" ELSE "warning"
    IN  IF result.kind = "exception" THEN by_counter
        ELSE IF result.status_code # 200 THEN "error"
        ELSE IF result.json = None THEN "error"
        ELSE IF "status" \notin DOMAIN result.json THEN "error"
        ELSE IF result.json.status # "ok" THEN by_counter
        ELSE "none"

\* calls_get_next_charge made to depend on the push: only after a response
\* with status code 200
calls_get_next_charge_after_200(result) ==
    IF result.kind = "exception" THEN FALSE ELSE result.status_code = 200

\* _update_and_publish_telemetry calls _get_next_charge after
\* _publish_telemetry, whatever the latter did
calls_get_next_charge(result) == TRUE

\* session.post of tlm/send returns or raises; _publish_telemetry handles it;
\* then _get_next_charge runs up to its blocking session.post
publish_done ==
    /\ w_pc = "push"
    /\ LET result == session_post(http.server)
           vin == tokens[w_idx].vin
           token == tokens[w_idx].token
           new == publish_telemetry(vin, http.tlm, result)
       IN  /\ connection_state' = new.connection_state
           /\ subsequent_errors' = new.subsequent_errors
           /\ last_telemetry_data' = new.last_telemetry_data
           /\ LOG' = log_level(result)
           /\ failed_since_success' = ~succeeded(result)
           /\ IF calls_get_next_charge(result)
              THEN /\ abrp_objects' =
                          IF token \in DOMAIN abrp_objects THEN abrp_objects
                          ELSE DictSet(abrp_objects, token, None)
                   /\ \E script \in Scripts(NextChargeBodies) :
                          http' = [url |-> "tlm/get_next_charge",
                                   token |-> token, tlm |-> None,
                                   server |-> script]
                   /\ tick_log' =
                          Append(tick_log, <<"tlm/get_next_charge", token>>)
                   /\ w_pc' = "fetch"
                   /\ UNCHANGED w_idx
              ELSE /\ http' = None
                   /\ w_idx' = w_idx + 1
                   /\ w_pc' = "for"
                   /\ UNCHANGED <<abrp_objects, tick_log>>
    /\ UNCHANGED <<construction, snapshot>>
    /\ UNCHANGED <<healthy, stop_event, ctl_pc, seen>>

\* _get_next_charge raises: session.post raised a RequestException, or
\* "'status' in response_json" was evaluated on None (TypeError)
next_charge_raises(result) ==
    IF result.kind = "exception" THEN TRUE
    ELSE result.status_code = 200 /\ result.json = None

\* _get_next_charge after session.post returned: the value set on
\* abrp_object.next_charge_level
next_charge_level(result) ==
    IF result.status_code = 200
    THEN IF "status" \in DOMAIN result.json /\ result.json.status = "ok"
         THEN IF "next_charge" \in DOMAIN result.json
                 /\ result.json.next_charge # None
              THEN result.json.next_charge
              ELSE None
         ELSE None
    ELSE None

\* session.post of tlm/get_next_charge returns and _get_next_charge ends
\* get_next_charge_done that stays at the same entry of the tokens mapping
get_next_charge_done_same_vehicle ==
    /\ w_pc = "fetch"
    /\ LET result == session_post(http.server)
       IN  /\ ~next_charge_raises(result)
           /\ abrp_objects' =
                  [abrp_objects EXCEPT ![http.token] = next_charge_level(result)]
    /\ http' = None
    /\ w_pc' = "for"
    /\ UNCHANGED <<construction, snapshot, journal>>
    /\ UNCHANGED <<connection_state, healthy, subsequent_errors, stop_event,
                   last_telemetry_data, ctl_pc, w_idx, seen, tick_log>>

\* _get_next_charge returns, and with it _update_and_publish_telemetry: the
\* for loop goes on to the next entry
get_next_charge_done ==
    /\ w_pc = "fetch"
    /\ LET result == session_post(http.server)
       IN  /\ ~next_charge_raises(result)
           /\ abrp_objects' =
                  [abrp_objects EXCEPT ![http.token] = next_charge_level(result)]
    /\ http' = None
    /\ w_idx' = w_idx + 1
    /\ w_pc' = "for"
    /\ UNCHANGED <<construction, snapshot, journal>>
    /\ UNCHANGED <<connection_state, healthy, subsequent_errors, stop_event,
                   last_telemetry_data, ctl_pc, seen, tick_log>>

\* an exception leaves _get_next_charge; "except Exception" of
\* _background_loop marks the plugin unhealthy, sets ERROR and re-raises
get_next_charge_raise ==
    /\ w_pc = "fetch"
    /\ next_charge_raises(session_post(http.server))
    /\ healthy' = FALSE
    /\ connection_state' = "ERROR"
    /\ http' = None
    /\ w_pc' = "crashed"
    /\ UNCHANGED <<construction, snapshot, journal>>
    /\ UNCHANGED <<subsequent_errors, stop_event, last_telemetry_data,
                   abrp_objects, ctl_pc, w_idx, seen, tick_log>>

\* the for loop is over: self._stop_event.wait(...) is entered
for_end ==
    /\ w_pc = "for"
    /\ w_idx > Len(tokens)
    /\ w_pc' = "wait"
    /\ UNCHANGED <<construction, snapshot, journal>>
    /\ UNCHANGED <<connection_state, healthy, subsequent_errors, stop_event,
                   last_telemetry_data, abrp_objects, ctl_pc, w_idx, http,
                   seen, tick_log>>

\* self._stop_event.wait(interval) returns: the event is set or the
\* interval has passed
wait_return ==
    /\ w_pc = "wait"
    /\ w_pc' = "while"
    /\ UNCHANGED <<construction, snapshot, journal>>
    /\ UNCHANGED <<connection_state, healthy, subsequent_errors, stop_event,
                   last_telemetry_data, abrp_objects, ctl_pc, w_idx, http,
                   seen, tick_log>>

Worker ==
    \/ loop_clear
    \/ loop_exit
    \/ loop_tick
    \/ for_vehicle
    \/ publish_done
    \/ get_next_charge_done
    \/ get_next_charge_raise
    \/ for_end
    \/ wait_return

Next == Controller \/ Worker

Spec == Init /\ [][Next]_vars

\* The scheduler runs the worker thread, every network call returns, and
\* join() returns once the thread has terminated.
FairSpec == Spec /\ WF_vars(Worker) /\ WF_vars(shutdown_join)

(***************************************************************************)
(* The snapshot builder on its own: the telemetry record of one vehicle    *)
(* view, for views that vary one section of the vehicle at a time over a   *)
(* vehicle with nothing enabled and over a vehicle with everything set.    *)
(***************************************************************************)
Timestamps == {[local |-> 1000, utcoffset |-> 60]}

Levels_of_drive ==
    {Level(FALSE, None, None), Level(TRUE, None, None),
     Level(TRUE, <<72>>, None)} \cup
    {Level(TRUE, <<72>>, <<t>>) : t \in Timestamps}

Drives ==
    {Drive(e, t, l, r) :
        e \in BOOLEAN, t \in {"electric", "fuel"},
        l \in Levels_of_drive, r \in {Off, On(310)}}

DriveLists ==
    {<<>>} \cup {<<d>> : d \in Drives} \cup
    {<<d1, d2>> : d1 \in Drives, d2 \in Drives}

ChargingStates ==
    {"OFF", "READY_FOR_CHARGING", "CHARGING", "CONSERVATION", "DISCHARGING",
     "ERROR", "UNSUPPORTED", "UNKNOWN"}

PowerValues == {0, 5}

Chargings ==
    [enabled : BOOLEAN,
     state : Attrs(ChargingStates),
     type : {Off, On("AC"), On("DC"), On("UNKNOWN")},
     power : Attrs(PowerValues)]

Positions ==
    [enabled : BOOLEAN,
     position_type : {Off, On("PARKING"), On("DRIVING"), On("UNKNOWN")},
     latitude : Attrs({52}),
     longitude : Attrs({13}),
     altitude : {Off, On(34)},
     heading : {Off, On(90)}]

Climatizations ==
    [enabled : BOOLEAN,
     settings : [enabled : BOOLEAN,
                 target_temperature : {None, Off, On(21)}]]

\* a vehicle with every section present, enabled and set
FullVehicle ==
    [BaseVehicle EXCEPT
        !.drives = [enabled |-> TRUE,
                    drives |-> <<Drive(TRUE, "electric",
                                       Level(TRUE, <<72>>, None), On(310))>>],
        !.odometer = On(12000),
        !.electric = TRUE,
        !.charging = [enabled |-> TRUE, state |-> On("CHARGING"),
                      type |-> On("AC"), power |-> On(5)],
        !.position = [enabled |-> TRUE, position_type |-> On("PARKING"),
                      latitude |-> On(52), longitude |-> On(13),
                      altitude |-> On(34), heading |-> On(90)],
        !.outside_temperature = On(18),
        !.climatization =
            [enabled |-> TRUE,
             settings |-> [enabled |-> TRUE,
                           target_temperature |-> On(21)]]]

\* only an ElectricVehicle has a charging object
BuilderViews ==
    UNION {
        {[base EXCEPT !.drives = [enabled |-> e, drives |-> ds]] :
            e \in BOOLEAN, ds \in DriveLists} \cup
        {[base EXCEPT !.electric = TRUE, !.charging = c] :
            c \in {None} \cup Chargings} \cup
        {[base EXCEPT !.electric = FALSE, !.charging = None]} \cup
        {[base EXCEPT !.position = q] : q \in {None} \cup Positions} \cup
        {[base EXCEPT !.odometer = o, !.outside_temperature = t,
                      !.climatization = c] :
            o \in {Off, On(12000)}, t \in {Off, On(18)},
            c \in Climatizations}
        : base \in {BaseVehicle, FullVehicle}}

BuilderInit ==
    /\ connection_state = "DISCONNECTED"
    /\ healthy = TRUE
    /\ subsequent_errors = 0
    /\ stop_event = FALSE
    /\ last_telemetry_data = EmptyDict
    /\ abrp_objects = EmptyDict
    /\ ctl_pc = "started"
    /\ w_pc = "for"
    /\ w_idx = 1
    /\ http = None
    /\ seen = None
    /\ tick_log = <<>>
    /\ config = [tokens |-> Mapping(tokens)]
    /\ interval = <<DefaultInterval>>
    /\ the_vehicle \in BuilderViews
    /\ the_telemetry_data = None
    /\ LOG = "none"
    /\ failed_since_success = FALSE

\* lines 131-194 for the vehicle found: the record handed to
\* _publish_telemetry
update_telemetry ==
    /\ w_pc = "for"
    /\ the_telemetry_data = None
    /\ the_telemetry_data' = <<build_telemetry(the_vehicle)>>
    /\ w_pc' = "push"
    /\ UNCHANGED <<connection_state, healthy, subsequent_errors, stop_event,
                   last_telemetry_data, abrp_objects, ctl_pc, w_idx, http,
                   seen, tick_log, construction, the_vehicle, journal>>

BuilderSpec == BuilderInit /\ [][update_telemetry]_vars

\* the record built, once it is built
Built == the_telemetry_data # None
Record == the_telemetry_data[1]
Fields == DOMAIN Record

----------------------------------------------------------------------------
(* Vocabulary of the properties *)

\* the classified outcome of a push, by the result of its session.post
PushResult(result) ==
    IF result.kind = "exception" THEN "TransportError"
    ELSE IF result.status_code # 200 THEN "HttpError"
    ELSE IF result.json = None THEN "MalformedResponse"
    ELSE IF "status" \notin DOMAIN result.json THEN "MalformedResponse"
    ELSE IF result.json.status = "ok" THEN "Success"
    ELSE "ApiRejected"

\* the next_charge a fetch ends with: the value of an HTTP 200 answer with
\* status 'ok' and a non-null next_charge, None for everything else
FetchedNextCharge(result) ==
    IF result.kind = "exception" THEN None
    ELSE IF result.status_code # 200 THEN None
    ELSE IF result.json = None THEN None
    ELSE IF "status" \notin DOMAIN result.json THEN None
    ELSE IF result.json.status # "ok" THEN None
    ELSE IF "next_charge" \notin DOMAIN result.json THEN None
    ELSE result.json.next_charge

\* a step in which the push (the fetch) the worker is blocked in ends
PushEnds == w_pc = "push" /\ w_pc' # "push"
FetchEnds == w_pc = "fetch" /\ w_pc' # "fetch"

\* the calls of this tick made with a token, in order
RECURSIVE CallsFor(_, _)
CallsFor(log, token) ==
    IF log = <<>> THEN <<>>
    ELSE IF Head(log)[2] = token
         THEN <<Head(log)[1]>> \o CallsFor(Tail(log), token)
         ELSE CallsFor(Tail(log), token)

\* the registry answered for the i-th configured vehicle in this tick
Handled(i) == tokens[i].vin \in DOMAIN seen

\* ... that it is absent, or that one of its connectors is unhealthy
Unavailable(i) ==
    LET a == seen[tokens[i].vin]
    IN  \/ ~a.present
        \/ \E k \in 1..Len(a.managing_connectors) : ~a.managing_connectors[k]

----------------------------------------------------------------------------
(* Properties *)

\* C1: after every push attempt the connection state is CONNECTED if the
\* outcome is Success and ERROR for each of the other four outcomes.
C1_PushOutcomeSetsState ==
    [][PushEnds =>
         connection_state' =
             IF PushResult(session_post(http.server)) = "Success"
             THEN "CONNECTED" ELSE "ERROR"]_vars

\* C2: no failure of a push or of a next-charge fetch terminates the worker:
\* when a push ends the worker goes on to the fetch, and when a fetch ends
\* the worker goes on to the next configured vehicle.
C2_FailuresAbsorbed ==
    [][/\ PushEnds => w_pc' = "fetch"
       /\ FetchEnds => (w_pc' = "for" /\ w_idx' = w_idx + 1)]_vars

\* C3: a shutdown() called after startup() eventually returns, and when it
\* has returned the worker thread has exited.
C3_ShutdownReturns ==
    /\ [](ctl_pc = "stopped" => Terminated)
    /\ (ctl_pc = "join") ~> (ctl_pc = "stopped")

\* C4: whenever the worker has terminated because of an uncaught exception,
\* the healthy flag is false.
C4_CrashedIsUnhealthy == w_pc = "crashed" => healthy = FALSE

\* C5: subsequent_errors counts the push failures since the last successful
\* push: a successful push sets it to 0, a failed one increases it by one.
C5_CounterCountsFailures ==
    [][PushEnds =>
         subsequent_errors' =
             IF PushResult(session_post(http.server)) = "Success"
             THEN 0 ELSE subsequent_errors + 1]_vars

\* C6: after every next-charge fetch the token's next_charge_level is the
\* returned next_charge if the fetch ended in HTTP 200 with status 'ok' and a
\* non-null next_charge, and None after every other outcome.
C6_NextChargeClearedOnFailure ==
    [][FetchEnds =>
         abrp_objects'[http.token] =
             FetchedNextCharge(session_post(http.server))]_vars

\* C7: a next-charge fetch and its handling never change the connection
\* state.
C7_FetchKeepsConnectionState ==
    [][FetchEnds => connection_state' = connection_state]_vars

\* C8: in a tick, for a configured vehicle that is absent from the registry
\* or has an unhealthy connector, no session.post is made with its token,
\* and the worker has gone on to the next configured vehicle.
C8_SkippedVehicleNoRequest ==
    \A i \in 1..Len(tokens) :
        (Handled(i) /\ Unavailable(i)) =>
            /\ CallsFor(tick_log, tokens[i].token) = <<>>
            /\ w_idx > i

C8_Witness ==
    /\ Handled(1) /\ seen[tokens[1].vin].present /\ Unavailable(1)
    /\ w_idx = 2 /\ w_pc = "fetch"
    /\ tick_log = << <<"tlm/send", tokens[2].token>>,
                     <<"tlm/get_next_charge", tokens[2].token>> >>

\* C9: in a tick, for a vehicle that is present with all connectors healthy,
\* exactly one push and then exactly one fetch are issued: while the push is
\* in flight only the push has been issued, and from the moment the push has
\* ended, whatever its outcome, the push and then the fetch have been.
C9_PushThenFetch ==
    \A i \in 1..Len(tokens) :
        (Handled(i) /\ ~Unavailable(i)) =>
            CallsFor(tick_log, tokens[i].token) =
                IF w_idx = i /\ w_pc = "push"
                THEN <<"tlm/send">>
                ELSE <<"tlm/send", "tlm/get_next_charge">>

C9_Witness ==
    /\ w_pc = "fetch" /\ w_idx = 2
    /\ connection_state = "ERROR"
    /\ Handled(1) /\ ~Unavailable(1)
    /\ tick_log = << <<"tlm/send", tokens[1].token>>,
                     <<"tlm/get_next_charge", tokens[1].token>>,
                     <<"tlm/send", tokens[2].token>>,
                     <<"tlm/get_next_charge", tokens[2].token>> >>

\* C10: a push that the server answers with 503 three times and then with
\* 200 and {"status": "ok"} ends as a Success: CONNECTED, with the cache
\* entry of the vin set to the record pushed.
C10_RetriedPushSucceeds ==
    [][(PushEnds /\
        http.server = Repeat(Status(503), 3) \o <<Ok200([status |-> "ok"])>>)
       => /\ connection_state' = "CONNECTED"
          /\ tokens[w_idx].vin \in DOMAIN last_telemetry_data'
          /\ last_telemetry_data'[tokens[w_idx].vin] = http.tlm]_vars

\* C11: the cache starts empty; a push classified Success sets the entry of
\* its vin to the record pushed and leaves every other entry as it was; a
\* push with any other outcome, and every other step, leaves the cache
\* unchanged.  So an entry is the record of the vin's latest successful push.
C11_CacheHoldsLastSuccess ==
    /\ last_telemetry_data = EmptyDict
    /\ [][IF PushEnds /\ PushResult(session_post(http.server)) = "Success"
          THEN LET vin == tokens[w_idx].vin
               IN  /\ vin \in DOMAIN last_telemetry_data'
                   /\ last_telemetry_data'[vin] = http.tlm
                   /\ DOMAIN last_telemetry_data' =
                          DOMAIN last_telemetry_data \cup {vin}
                   /\ \A v \in DOMAIN last_telemetry_data \ {vin} :
                          last_telemetry_data'[v] = last_telemetry_data[v]
          ELSE last_telemetry_data' = last_telemetry_data]_vars

C11_Witness ==
    /\ w_pc = "fetch" /\ w_idx = 1 /\ connection_state = "ERROR"
    /\ DOMAIN last_telemetry_data = VINs
    /\ last_telemetry_data[tokens[1].vin] # last_telemetry_data[tokens[2].vin]

\* C12: the connection state is DISCONNECTED at construction, and a step
\* that changes it to DISCONNECTED is the return of join() in shutdown().
C12_DisconnectedOnlyByShutdown ==
    /\ connection_state = "DISCONNECTED"
    /\ [][(connection_state # "DISCONNECTED" /\
           connection_state' = "DISCONNECTED")
          => (ctl_pc = "join" /\ ctl_pc' = "stopped")]_vars

C12_Witness ==
    /\ ctl_pc = "stopped" /\ connection_state = "DISCONNECTED"
    /\ w_pc = "crashed"
    /\ last_telemetry_data # EmptyDict

(***************************************************************************)
(* Construction on its own: Plugin.__init__ on a configuration, then       *)
(* startup() and the first steps of the worker on the object constructed.  *)
(***************************************************************************)
TokenValues == {Mapping(<<>>), Mapping(tokens), Str(""), Str("tokA")}

IntervalValues == {0, 5, 9, 10, 11, 60, 179, 180, 181, 600}

\* a configuration with the keys of dom
Config(dom, t, i) == [k \in dom |-> IF k = "tokens" THEN t ELSE i]

Configs ==
    {Config(dom, t, i) :
        dom \in SUBSET {"tokens", "interval"},
        t \in TokenValues, i \in IntervalValues}

\* Plugin.__init__: whether it raises ConfigurationError, and the value of
\* the interval attribute when it returns
plugin_init(cfg) ==
    IF "tokens" \notin DOMAIN cfg
    THEN [raised |-> TRUE, interval |-> None]
    ELSE IF ~truthy(cfg["tokens"])
    THEN [raised |-> TRUE, interval |-> None]
    ELSE IF "interval" \in DOMAIN cfg
    THEN IF cfg["interval"] < MinInterval
         THEN [raised |-> TRUE, interval |-> None]
         ELSE [raised |-> FALSE, interval |-> <<cfg["interval"]>>]
    ELSE [raised |-> FALSE, interval |-> <<DefaultInterval>>]

ConfigInit ==
    /\ connection_state = "DISCONNECTED"
    /\ healthy = FALSE
    /\ subsequent_errors = 0
    /\ stop_event = FALSE
    /\ last_telemetry_data = EmptyDict
    /\ abrp_objects = EmptyDict
    /\ ctl_pc = "new"
    /\ w_pc = "none"
    /\ w_idx = 1
    /\ http = None
    /\ seen = EmptyDict
    /\ tick_log = <<>>
    /\ config \in Configs
    /\ interval = None
    /\ the_vehicle = None
    /\ the_telemetry_data = None
    /\ LOG = "none"
    /\ failed_since_success = FALSE

\* Plugin(plugin_id, car_connectivity, config)
construct ==
    /\ ctl_pc = "new"
    /\ LET r == plugin_init(config)
       IN  /\ ctl_pc' = IF r.raised THEN "ConfigurationError"
                                    ELSE "constructed"
           /\ interval' = r.interval
    /\ UNCHANGED <<connection_state, healthy, subsequent_errors, stop_event,
                   last_telemetry_data, abrp_objects, w_pc, w_idx, http,
                   seen, tick_log, config, snapshot, journal>>

\* for vin, token in self.active_config['tokens'].items(): the value has
\* no items(); the exception ends the thread through the handler of the loop
for_items_raise ==
    /\ w_pc = "for"
    /\ config["tokens"].kind # "dict"
    /\ healthy' = FALSE
    /\ connection_state' = "ERROR"
    /\ w_pc' = "crashed"
    /\ UNCHANGED <<subsequent_errors, stop_event, last_telemetry_data,
                   abrp_objects, ctl_pc, w_idx, http, seen, tick_log,
                   construction, snapshot, journal>>

ConfigNext ==
    \/ construct
    \/ startup_thread
    \/ startup_healthy
    \/ loop_clear
    \/ loop_tick
    \/ for_items_raise

ConfigSpec == ConfigInit /\ [][ConfigNext]_vars

\* the worker goes from one configured vehicle to the next without a push
SkipsVehicle == w_pc = "for" /\ w_pc' = "for" /\ w_idx' = w_idx + 1

\* C18: the connection state becomes CONNECTING only in a step that starts
\* a push, and handling a vehicle that is skipped (absent from the registry
\* or with an unhealthy connector) leaves the connection state as it was.
C18_ConnectingOnlyBeforePush ==
    [][/\ (connection_state # "CONNECTING" /\ connection_state' = "CONNECTING")
           => w_pc' = "push"
       /\ SkipsVehicle => connection_state' = connection_state]_vars

\* C19: a push that ends in a failure is logged at warning severity when no
\* push has failed since the last successful push, and at error severity
\* when one has.
C19_SeverityEscalates ==
    [][(PushEnds /\ ~succeeded(session_post(http.server)))
          => LOG' = IF failed_since_success THEN "error" ELSE "warning"]_vars

RECURSIVE ExpectedLog(_)
\* the calls of a tick, in the order of the tokens mapping: a push and then
\* a fetch for every vehicle handled and not skipped, the fetch missing
\* while the push is in flight
ExpectedLog(i) ==
    IF i > Len(tokens) THEN <<>>
    ELSE IF ~Handled(i) THEN <<>>
    ELSE (IF Unavailable(i) THEN <<>>
          ELSE IF w_idx = i /\ w_pc = "push"
               THEN << <<"tlm/send", tokens[i].token>> >>
               ELSE << <<"tlm/send", tokens[i].token>>,
                       <<"tlm/get_next_charge", tokens[i].token>> >>)
         \o ExpectedLog(i + 1)

InFlight == w_pc \in {"push", "fetch"}

\* C20: after one startup() at most one request is in flight, the one the
\* worker is blocked in; within a tick the configured vehicles are handled
\* one after another in the order of the tokens mapping, the push and the
\* fetch of a vehicle being over before the push of the next one is issued.
C20_OneRequestInOrder ==
    /\ tick_log = ExpectedLog(1)
    /\ \A i \in 1..Len(tokens) :
           /\ Handled(i) => i <= w_idx /\ \A j \in 1..i : Handled(j)
           /\ i < w_idx => Handled(i)
    /\ http # None <=> InFlight
    /\ InFlight =>
           /\ w_idx \in 1..Len(tokens)
           /\ http.token = tokens[w_idx].token
           /\ http.url = IF w_pc = "push" THEN "tlm/send"
                                          ELSE "tlm/get_next_charge"
           /\ tick_log # <<>>
           /\ tick_log[Len(tick_log)] = <<http.url, http.token>>

C20_Witness ==
    /\ w_pc = "push" /\ w_idx = 2
    /\ LOG = "warning"
    /\ http.token = tokens[2].token
    /\ tick_log = << <<"tlm/send", tokens[1].token>>,
                     <<"tlm/get_next_charge", tokens[1].token>>,
                     <<"tlm/send", tokens[2].token>> >>

\* the tick in course, if any, has handled every configured vehicle
TickFinished ==
    \/ w_idx > Len(tokens)
    \/ w_idx = 1 /\ tick_log = <<>> /\ seen = EmptyDict

\* C21: once shutdown() has returned the worker thread has ended, no request
\* is in flight, and no step starts a tick, issues a request or writes the
\* connection state or the cache, so the state stays DISCONNECTED; and once
\* a stop is signalled the worker ends only at the check of the while loop,
\* after the remaining vehicles of the tick in course have been handled.
C21_StoppedStaysStopped ==
    /\ [](ctl_pc = "stopped" =>
             /\ Terminated
             /\ http = None
             /\ connection_state = "DISCONNECTED")
    /\ [][ctl_pc = "stopped" =>
             UNCHANGED <<w_pc, w_idx, tick_log, http, seen, connection_state,
                         last_telemetry_data, abrp_objects>>]_vars
    /\ [][(stop_event /\ ~Terminated /\ Terminated') =>
             (w_pc = "while" /\ TickFinished)]_vars

-----------------------------------------------------------------------------
(***************************************************************************)
(* The snapshot builder (BuilderSpec).                                     *)
(***************************************************************************)
DriveFields == {"soc", "utc", "est_battery_range"}

the_drives == the_vehicle.drives.drives

NoEnabledElectricDrive ==
    \A i \in 1..Len(the_drives) :
        ~(the_drives[i].enabled /\ the_drives[i].type = "electric")

OnlyDriveEnabled == Len(the_drives) = 1 /\ the_drives[1].enabled

\* C13 as stated: a vehicle view with no enabled drive of type electric,
\* a vehicle whose only drive is enabled but not electric included, gives a
\* record with none of soc, utc and est_battery_range.
C13_NoElectricDriveNoDriveFields ==
    (Built /\ NoEnabledElectricDrive) => Fields \cap DriveFields = {}

\* C13, amended: a vehicle view with no enabled drive of type electric,
\* other than a vehicle whose only drive is enabled, gives a record with
\* none of soc, utc and est_battery_range; the only drive of a vehicle, when
\* enabled, is read whatever its type.
C13_NoElectricDriveUnlessOnlyDrive ==
    /\ (Built /\ NoEnabledElectricDrive /\ ~OnlyDriveEnabled)
           => Fields \cap DriveFields = {}
    /\ (Built /\ the_vehicle.drives.enabled /\ OnlyDriveEnabled)
           => /\ "soc" \in Fields <=> Has(the_drives[1].level)
              /\ "est_battery_range" \in Fields <=> Has(the_drives[1].range)

C13_Witness ==
    /\ Built
    /\ the_vehicle.drives.enabled
    /\ Len(the_drives) = 2
    /\ the_drives[1] = Drive(TRUE, "fuel", Level(TRUE, <<72>>, None), On(310))
    /\ the_drives[2].type = "electric" /\ ~the_drives[2].enabled
    /\ Has(the_drives[2].level)
    /\ Fields \cap DriveFields = {}

HasChargingData ==
    /\ the_vehicle.electric
    /\ the_vehicle.charging # None
    /\ the_vehicle.charging.enabled

ChargingState == the_vehicle.charging.state

\* C14: for a vehicle view with charging data, is_charging is true for the
\* states CHARGING, CONSERVATION and DISCHARGING, false for OFF,
\* READY_FOR_CHARGING and ERROR, and absent for any other state and for a
\* state that is disabled or has no value.
C14_IsChargingByState ==
    (Built /\ HasChargingData) =>
        IF Has(ChargingState)
           /\ ChargingState.value[1] \in
                  {"CHARGING", "CONSERVATION", "DISCHARGING"}
        THEN "is_charging" \in Fields /\ Record.is_charging = TRUE
        ELSE IF Has(ChargingState)
                /\ ChargingState.value[1] \in
                       {"OFF", "READY_FOR_CHARGING", "ERROR"}
             THEN "is_charging" \in Fields /\ Record.is_charging = FALSE
             ELSE "is_charging" \notin Fields

C14_Witness ==
    /\ Built /\ HasChargingData
    /\ ChargingState = On("DISCHARGING")
    /\ ~the_vehicle.charging.power.enabled
    /\ "is_charging" \in Fields /\ Record.is_charging = TRUE

ChargingPower == the_vehicle.charging.power

\* C15: an enabled charging power p is published as p when the charging
\* state is enabled and DISCHARGING, and as -p for every other state and
\* for a state that is disabled or has no value.
C15_PowerSign ==
    (Built /\ HasChargingData /\ Has(ChargingPower)) =>
        /\ "power" \in Fields
        /\ Record.power =
               IF Has(ChargingState) /\ ChargingState.value[1] = "DISCHARGING"
               THEN ChargingPower.value[1]
               ELSE 0 - ChargingPower.value[1]

C15_Witness ==
    /\ Built /\ HasChargingData
    /\ ChargingPower = On(5)
    /\ ChargingState = On("DISCHARGING")
    /\ Record.power = 5

HasPosition ==
    /\ the_vehicle.position # None
    /\ the_vehicle.position.enabled

\* C16: in every record built lat is present exactly when lon is; for a
\* vehicle view with a position both are present when latitude and
\* longitude are each enabled and set, and neither otherwise.
C16_LatIffLon ==
    Built =>
        /\ "lat" \in Fields <=> "lon" \in Fields
        /\ HasPosition =>
               ("lat" \in Fields <=>
                   (Has(the_vehicle.position.latitude)
                    /\ Has(the_vehicle.position.longitude)))
        /\ ~HasPosition => "lat" \notin Fields

C16_Witness ==
    /\ Built /\ HasPosition
    /\ the_vehicle.position.latitude = On(52)
    /\ the_vehicle.position.longitude = Attr(TRUE, None)
    /\ "elevation" \in Fields
    /\ "lat" \notin Fields /\ "lon" \notin Fields

-----------------------------------------------------------------------------
(***************************************************************************)
(* Construction (ConfigSpec).                                              *)
(***************************************************************************)
Constructed == ctl_pc \notin {"new", "ConfigurationError"}

HasNonEmptyTokensMapping ==
    /\ "tokens" \in DOMAIN config
    /\ config["tokens"].kind = "dict"
    /\ config["tokens"].items # <<>>

IntervalBelowMinimum ==
    /\ "interval" \in DOMAIN config
    /\ config["interval"] < MinInterval

\* C17: construction fails with ConfigurationError, and no worker can be
\* started, exactly when the config has no non-empty 'tokens' mapping or an
\* interval below the minimum; otherwise the interval is the one given, or
\* 60 seconds when none is given.
C17_ConfigurationError ==
    /\ ctl_pc # "new" =>
           (ctl_pc = "ConfigurationError"
               <=> (~HasNonEmptyTokensMapping \/ IntervalBelowMinimum))
    /\ ctl_pc = "ConfigurationError" => w_pc = "none"
    /\ Constructed =>
           interval = IF "interval" \in DOMAIN config
                      THEN <<config["interval"]>> ELSE <<DefaultInterval>>
    /\ ~Constructed => w_pc = "none"

=============================================================================
